---- MODULE Spec2Model ----
(***************************************************************************)
(* A model of the Menu tree of src/menu.py: a heap of Menu objects, each   *)
(* with a title, an attribute dict, a deque of sub menus and a tree        *)
(* indent, and the public operations on them.                              *)
(*                                                                         *)
(* Python strings that the code inspects (strip, endswith, concatenation)  *)
(* are sequences of one-character strings.  Python values whose type the   *)
(* code checks are records [t |-> type name, v |-> text of the value].     *)
(* A Menu object is its index in the heap (1 .. Len(title)).               *)
(***************************************************************************)
EXTENDS Integers, Sequences, FiniteSets, TLC

VARIABLES title, attributes, sub_menus, tree_indent, files, call, args, ret,
          copied

vars == <<title, attributes, sub_menus, tree_indent, files, call, args, ret,
          copied>>

(* ----------------------------- bounds --------------------------------- *)

(* the most Menu objects alive in each specification *)
MaxTreeNodes == 5

MaxAttrNodes == 2

MaxFailNodes == 2

MaxRenderNodes == 4

MaxIndentNodes == 2

MaxCopyNodes == 3

MaxAliasNodes == 2

MaxJsonNodes == 4

(* the most sub menus of one Menu *)
MaxChildren == 2

(* --------------------------- python values ---------------------------- *)

PV(t, v) == [t |-> t, v |-> v]

NoneV == PV("NoneType", <<>>)

StrV(s) == PV("str", s)

Untitled == <<"u", "n", "t", "i", "t", "l", "e", "d">>

Whitespace == {" ", "\t", "\n"}

RECURSIVE LStrip(_)
LStrip(s) ==
    IF s # <<>> /\ Head(s) \in Whitespace THEN LStrip(Tail(s)) ELSE s

RECURSIVE RStrip(_)
RStrip(s) ==
    IF s # <<>> /\ s[Len(s)] \in Whitespace
    THEN RStrip(SubSeq(s, 1, Len(s) - 1))
    ELSE s

Strip(s) == RStrip(LStrip(s))

EndsWith(s, suffix) ==
    /\ Len(s) >= Len(suffix)
    /\ SubSeq(s, Len(s) - Len(suffix) + 1, Len(s)) = suffix

Range(s) == {s[i] : i \in DOMAIN s}

RECURSIVE Reversed(_)
Reversed(s) == IF s = <<>> THEN <<>> ELSE Append(Reversed(Tail(s)), Head(s))

(* Union[int, float, str, bool, list, dict, NoneType] *)
Scalar == {"int", "float", "str", "bool", "list", "dict", "NoneType"}

(* type_check / type_debug: the value's type is one of the annotated ones *)
TypeOk(value, types) == value.t \in types

(* element_type_check(iterable, types): every element passes *)
ElementTypeOk(values, types) == \A x \in values : x.t \in types

(* ------------------------------- dicts -------------------------------- *)
(* A dict is a function from its keys; dict equality ignores key order.   *)

EmptyDict == [k \in {} |-> NoneV]

DictValues(d) == {d[k] : k \in DOMAIN d}

DictUpdate(d, kw) ==
    [k \in (DOMAIN d) \cup (DOMAIN kw) |-> IF k \in DOMAIN kw THEN kw[k] ELSE d[k]]

DictPop(d, key) == [k \in (DOMAIN d) \ {key} |-> d[k]]

RECURSIVE DictPopAll(_, _)
DictPopAll(d, keys) ==
    IF keys = <<>> THEN d ELSE DictPopAll(DictPop(d, Head(keys)), Tail(keys))

(* ------------------------------- heap --------------------------------- *)

Heap == [title |-> title, attributes |-> attributes,
         sub_menus |-> sub_menus, tree_indent |-> tree_indent]

NodesOf(H) == 1 .. Len(H.title)

DefaultIndent == 4

(* outcome of a call: the heap after it, whether it raised, what it returned *)
Done(H, value) == [H |-> H, raised |-> FALSE, ret |-> value]

Raise(H, kind) == [H |-> H, raised |-> TRUE, ret |-> kind]

RECURSIVE ReachFrom(_, _, _)
ReachFrom(H, frontier, seen) ==
    IF frontier = {} THEN seen
    ELSE LET next == (UNION {Range(H.sub_menus[x]) : x \in frontier}) \ seen
         IN  ReachFrom(H, next, seen \cup next)

Reach(H, n) == ReachFrom(H, {n}, {n})

Descendants(H, n) ==
    LET kids == Range(H.sub_menus[n]) IN ReachFrom(H, kids, kids)

Acyclic(H) == \A n \in NodesOf(H) : n \notin Descendants(H, n)

(* Menu.__init__ *)
BlankToUntitled(t) ==
    IF t.t = "NoneType" \/ Strip(t.v) = <<>> THEN Untitled ELSE t.v

Menu__init__(H, t) ==
    IF ~TypeOk(t, {"str", "NoneType"}) THEN Raise(H, "TypeError")
    ELSE Done([title       |-> Append(H.title, BlankToUntitled(t)),
               attributes  |-> Append(H.attributes, EmptyDict),
               sub_menus   |-> Append(H.sub_menus, <<>>),
               tree_indent |-> Append(H.tree_indent, DefaultIndent)],
              Len(H.title) + 1)

(* Menu.__set_title, Menu.__del_title *)
set_title(H, n, t) ==
    IF ~TypeOk(t, {"str", "NoneType"}) THEN Raise(H, "TypeError")
    ELSE Done([H EXCEPT !.title[n] = BlankToUntitled(t)], NoneV)

del_title(H, n) == Done([H EXCEPT !.title[n] = Untitled], NoneV)

(* the dict cleared before the values are checked: a mutant of            *)
(* set_attributes                                                          *)
set_attributes_ClearFirst(H, n, kwargs) ==
    IF ~TypeOk(kwargs, {"dict"}) THEN Raise(H, "TypeError")
    ELSE IF kwargs.m # EmptyDict /\ ~ElementTypeOk(DictValues(kwargs.m), Scalar)
    THEN Raise([H EXCEPT !.attributes[n] = EmptyDict], "TypeError")
    ELSE Done([H EXCEPT !.attributes[n] = DictUpdate(EmptyDict, kwargs.m)], NoneV)

(* Menu.__set_attributes, Menu.__del_attributes.  kwargs is the assigned     *)
(* value: [t |-> its type, m |-> its items when it is a dict].              *)
set_attributes(H, n, kwargs) ==
    IF ~TypeOk(kwargs, {"dict"}) THEN Raise(H, "TypeError")
    ELSE IF kwargs.m # EmptyDict /\ ~ElementTypeOk(DictValues(kwargs.m), Scalar)
    THEN Raise(H, "TypeError")
    ELSE Done([H EXCEPT !.attributes[n] = DictUpdate(EmptyDict, kwargs.m)], NoneV)

del_attributes_property(H, n) ==
    Done([H EXCEPT !.attributes[n] = EmptyDict], NoneV)

(* Menu.add_attributes: the keys of keyword arguments are strings *)
add_attributes(H, n, kwargs) ==
    IF kwargs = EmptyDict THEN Raise(H, "Error")
    ELSE IF ~ElementTypeOk(DictValues(kwargs), Scalar) THEN Raise(H, "TypeError")
    ELSE Done([H EXCEPT !.attributes[n] = DictUpdate(@, kwargs)], NoneV)

(* Menu.del_attributes: keys is the tuple of positional arguments *)
del_attributes(H, n, keys) ==
    IF keys = <<>> THEN Raise(H, "Error")
    ELSE IF ~ElementTypeOk(Range(keys), {"str"}) THEN Raise(H, "TypeError")
    ELSE Done([H EXCEPT !.attributes[n] = DictPopAll(@, keys)], NoneV)

TextKey == StrV(<<"_", "_", "t", "e", "x", "t", "_", "_">>)

CommentKey == StrV(<<"_", "_", "c", "o", "m", "m", "e", "n", "t", "_", "_">>)

(* Menu.__set_text / __del_text and __set_comment / __del_comment *)
set_text(H, n, content) ==
    IF ~TypeOk(content, {"str"}) THEN Raise(H, "TypeError")
    ELSE add_attributes(H, n, [k \in {TextKey} |-> content])

del_text(H, n) == del_attributes(H, n, <<TextKey>>)

set_comment(H, n, content) ==
    IF ~TypeOk(content, {"str"}) THEN Raise(H, "TypeError")
    ELSE add_attributes(H, n, [k \in {CommentKey} |-> content])

del_comment(H, n) == del_attributes(H, n, <<CommentKey>>)

(* ----------------------------- sub menus ------------------------------ *)
(* Python sequence indexing: -len <= index < len, negative from the end.  *)

IndexInRange(s, index) == -Len(s) <= index /\ index < Len(s)

Pos(s, index) == IF index >= 0 THEN index + 1 ELSE Len(s) + index + 1

(* deque.insert(index, x) *)
DequeInsert(s, index, x) ==
    IF index >= Len(s) THEN Append(s, x)
    ELSE IF index <= -Len(s) \/ index = 0 THEN <<x>> \o s
    ELSE LET p == IF index < 0 THEN Len(s) + index ELSE index
         IN  SubSeq(s, 1, p) \o <<x>> \o SubSeq(s, p + 1, Len(s))

(* del deque[index] *)
DequeDel(s, index) ==
    SubSeq(s, 1, Pos(s, index) - 1) \o SubSeq(s, Pos(s, index) + 1, Len(s))

(* Menu.get_sub_menu(locator) *)
RECURSIVE get_sub_menu(_, _, _)
get_sub_menu(H, n, locator) ==
    IF locator = <<>> THEN Done(H, n)
    ELSE IF ~IndexInRange(H.sub_menus[n], Head(locator)) THEN Raise(H, "IndexError")
    ELSE get_sub_menu(H, H.sub_menus[n][Pos(H.sub_menus[n], Head(locator))],
                      Tail(locator))

(* copy.deepcopy(menu_instance): every object reachable from T is copied   *)
(* once (the memo keeps sharing and cycles), the copies are new objects.   *)
CopyRank(R, x) == Cardinality({y \in R : y <= x})

CopySource(R, i) == CHOOSE x \in R : CopyRank(R, x) = i

CopyOf(H, R, x) == Len(H.title) + CopyRank(R, x)

CopiedSubMenus(H, R, x) ==
    [i \in 1 .. Len(H.sub_menus[x]) |-> CopyOf(H, R, H.sub_menus[x][i])]

deepcopy(H, T) ==
    LET R == Reach(H, T)
        k == Cardinality(R)
    IN  Done([title       |-> H.title \o [i \in 1 .. k |-> H.title[CopySource(R, i)]],
              attributes  |-> H.attributes \o
                                [i \in 1 .. k |-> H.attributes[CopySource(R, i)]],
              sub_menus   |-> H.sub_menus \o
                                [i \in 1 .. k |-> CopiedSubMenus(H, R, CopySource(R, i))],
              tree_indent |-> H.tree_indent \o
                                [i \in 1 .. k |-> H.tree_indent[CopySource(R, i)]]],
             CopyOf(H, R, T))

(* Menu.add_sub_menu(title, menu_instance=, index=, add_deepcopy=).        *)
(* menu_instance is [t |-> its type, id |-> the object when a Menu];       *)
(* index is [t |-> its type, i |-> the integer when an int].               *)
(* the instance attached as it is, never copied: a mutant of NewInstance *)
NewInstance_NoCopy(H, menu_instance, add_deepcopy) ==
    IF menu_instance.t = "NoneType" THEN Menu__init__(H, NoneV)
    ELSE IF menu_instance.t # "Menu" THEN Raise(H, "Error")
    ELSE Done(H, menu_instance.id)

NewInstance(H, menu_instance, add_deepcopy) ==
    IF menu_instance.t = "NoneType" THEN Menu__init__(H, NoneV)
    ELSE IF menu_instance.t # "Menu" THEN Raise(H, "Error")
    ELSE IF add_deepcopy THEN deepcopy(H, menu_instance.id)
    ELSE Done(H, menu_instance.id)

Retitle(H, m, t) ==
    IF t.t = "NoneType" THEN H
    ELSE set_title(H, m, StrV(IF Strip(t.v) = <<>> THEN Untitled ELSE t.v)).H

InsertSubMenu(H, n, m, index) ==
    IF index.t # "NoneType"
    THEN [H EXCEPT !.sub_menus[n] = DequeInsert(@, index.i, m)]
    ELSE [H EXCEPT !.sub_menus[n] = Append(@, m)]

add_sub_menu(H, n, t, menu_instance, index, add_deepcopy) ==
    IF ~TypeOk(t, {"str", "NoneType"}) \/ ~TypeOk(index, {"int", "NoneType"})
    THEN Raise(H, "TypeError")
    ELSE LET inst == NewInstance(H, menu_instance, add_deepcopy)
         IN  IF inst.raised THEN Raise(H, "Error")
             ELSE Done(InsertSubMenu(Retitle(inst.H, inst.ret, t), n, inst.ret, index),
                       inst.ret)

(* Menu.del_sub_menu(index=-1, delete_all=False) *)
del_sub_menu(H, n, index, delete_all) ==
    IF delete_all THEN Done([H EXCEPT !.sub_menus[n] = <<>>], NoneV)
    ELSE IF ~IndexInRange(H.sub_menus[n], index) THEN Raise(H, "IndexError")
    ELSE Done([H EXCEPT !.sub_menus[n] = DequeDel(@, index)], NoneV)

(* --------------------------- get_structure ---------------------------- *)

UpperAlpha == <<"A", "B", "C", "D", "E", "F", "G", "H", "I", "J", "K", "L", "M",
                "N", "O", "P", "Q", "R", "S", "T", "U", "V", "W", "X", "Y", "Z">>

LowerAlpha == <<"a", "b", "c", "d", "e", "f", "g", "h", "i", "j", "k", "l", "m",
                "n", "o", "p", "q", "r", "s", "t", "u", "v", "w", "x", "y", "z">>

LowerChar(c) ==
    IF \E i \in DOMAIN UpperAlpha : UpperAlpha[i] = c
    THEN LowerAlpha[CHOOSE i \in DOMAIN UpperAlpha : UpperAlpha[i] = c]
    ELSE c

(* str.lower() *)
Lower(s) == [i \in 1 .. Len(s) |-> LowerChar(s[i])]

(* deque.extendleft(iterable): appendleft of each item in turn *)
RECURSIVE ExtendLeft(_, _)
ExtendLeft(d, items) ==
    IF items = <<>> THEN d ELSE ExtendLeft(<<Head(items)>> \o d, Tail(items))

(* the children pushed without reversed(): a mutant of ChildrenOf *)
ChildrenOf_Unreversed(H, level, m) ==
    [i \in 1 .. Len(H.sub_menus[m]) |-> <<level + 1, H.sub_menus[m][i]>>]

(* map(f, reversed(menu_instance.sub_menus)) *)
ChildrenOf(H, level, m) ==
    LET r == Reversed(H.sub_menus[m])
    IN  [i \in 1 .. Len(r) |-> <<level + 1, r[i]>>]

Payload(H, m, return_title) == IF return_title THEN H.title[m] ELSE m

(* the while loop of get_structure; it does not end on a cycle *)
RECURSIVE StructureLoop(_, _, _, _)
StructureLoop(H, deque_, structure, return_title) ==
    IF deque_ = <<>> THEN structure
    ELSE LET level == Head(deque_)[1]
             m     == Head(deque_)[2]
         IN  StructureLoop(H,
                           ExtendLeft(Tail(deque_), ChildrenOf(H, level, m)),
                           Append(structure, <<level, Payload(H, m, return_title)>>),
                           return_title)

Structure(H, n, return_title) ==
    StructureLoop(H, <<<<0, n>>>>, <<>>, return_title)

(* an ordered dict: a sequence of <<key, value>>; d[key] = value keeps the *)
(* place of a key that is already there                                    *)
OdHas(d, key) == \E i \in DOMAIN d : d[i][1] = key

OdGet(d, key) == d[CHOOSE i \in DOMAIN d : d[i][1] = key][2]

OdSet(d, key, value) ==
    IF OdHas(d, key)
    THEN [i \in DOMAIN d |-> IF d[i][1] = key THEN <<key, value>> ELSE d[i]]
    ELSE Append(d, <<key, value>>)

OdKeys(d) == [i \in DOMAIN d |-> d[i][1]]

(* cursor[-1] += 1 *)
BumpLast(cursor) == [cursor EXCEPT ![Len(cursor)] = @ + 1]

(* going up by one level only: a mutant of NextCursor *)
NextCursor_UpOneLevel(cursor, level, latest_level) ==
    IF level > latest_level THEN Append(cursor, 0)
    ELSE IF level < latest_level
    THEN BumpLast(SubSeq(cursor, 1, Len(cursor) - 1))
    ELSE BumpLast(cursor)

NextCursor(cursor, level, latest_level) ==
    IF level > latest_level THEN Append(cursor, 0)
    ELSE IF level < latest_level THEN BumpLast(SubSeq(cursor, 1, level))
    ELSE BumpLast(cursor)

(* the for loop of case "dict" *)
RECURSIVE StructureDictLoop(_, _, _, _)
StructureDictLoop(structure, cursor, latest_level, structure_dict) ==
    IF structure = <<>> THEN structure_dict
    ELSE LET level == Head(structure)[1]
             node  == Head(structure)[2]
         IN  IF level = 0
             THEN StructureDictLoop(Tail(structure), cursor, level,
                                    OdSet(structure_dict, <<>>, node))
             ELSE LET c == NextCursor(cursor, level, latest_level)
                  IN  StructureDictLoop(Tail(structure), c, level,
                                        OdSet(structure_dict, c, node))

StructureDict(H, n, return_title) ==
    StructureDictLoop(Structure(H, n, return_title), <<>>, 0, <<>>)

Container(kind, items) == [kind |-> kind, items |-> items]

(* Menu.get_structure(return_title, type_of_return) *)
get_structure(H, n, return_title, type_of_return) ==
    LET structure == Structure(H, n, return_title)
        how       == Lower(type_of_return)
    IN  IF how \in {<<"d">>, <<"d", "e", "q", "u", "e">>}
        THEN Done(H, Container("deque", structure))
        ELSE IF how \in {<<"t">>, <<"t", "u", "p", "l", "e">>}
        THEN Done(H, Container("tuple", structure))
        ELSE IF how \in {<<"l">>, <<"l", "i", "s", "t">>}
        THEN Done(H, Container("list", structure))
        ELSE IF how = <<"d", "i", "c", "t">>
        THEN Done(H, Container("dict",
                 StructureDictLoop(structure, <<>>, 0, <<>>)))
        ELSE Raise(H, "Error")

(* ------------------------------- tree --------------------------------- *)

(* Menu.__set_tree_indent; value is the assigned integer *)
set_tree_indent(H, n, value) ==
    IF value <= 0 THEN Raise(H, "Error")
    ELSE Done([H EXCEPT !.tree_indent[n] = value], NoneV)

Rep(c, k) == [i \in 1 .. k |-> c]

(* s[0:-1] + " " *)
BlankLast(s) == SubSeq(s, 1, Len(s) - 1) \o <<" ">>

(* the box-drawing characters U+2502, U+251C, U+2514 and U+2500, written   *)
(* here with one ASCII character each                                      *)
BoxVertical == "|"

BoxTee == "+"

BoxCorner == "L"

BoxDash == "-"

Stems(indent) ==
    LET mid  == <<BoxTee>> \o Rep(BoxDash, indent - 1)
        last == <<BoxCorner>> \o Rep(BoxDash, indent - 1)
    IN  <<<<BoxVertical>> \o Rep(" ", indent - 1),
          <<" ">> \o Rep(" ", indent - 1),
          IF indent > 2 THEN BlankLast(mid) ELSE mid,
          IF indent > 2 THEN BlankLast(last) ELSE last>>

(* the default indent, not the node's own, when the override is not        *)
(* positive: a mutant of EffectiveIndent                                   *)
EffectiveIndent_Default(H, n, indent) ==
    IF indent.t = "NoneType" THEN H.tree_indent[n]
    ELSE IF indent.i <= 0 THEN DefaultIndent
    ELSE indent.i

(* the indent tree() renders with *)
EffectiveIndent(H, n, indent) ==
    IF indent.t = "NoneType" \/ indent.i <= 0 THEN H.tree_indent[n] ELSE indent.i

(* bool(structure.get(dummy, None)) *)
Truthy(structure, key) == OdHas(structure, key) /\ OdGet(structure, key) # <<>>

(* the next sibling looked up for the last level on every level: a mutant *)
(* of StemFor                                                              *)
StemFor_LastLevelOnly(stems, structure, locator, i) ==
    LET dummy == Append(SubSeq(locator, 1, Len(locator) - 1),
                        locator[Len(locator)] + 1)
    IN  IF i < Len(locator)
        THEN IF Truthy(structure, dummy) THEN stems[1] ELSE stems[2]
        ELSE IF Truthy(structure, dummy) THEN stems[3] ELSE stems[4]

(* stems[0..3] chosen by the match in tree(); i counts from 1 here *)
StemFor(stems, structure, locator, i) ==
    LET dummy == Append(SubSeq(locator, 1, i - 1), locator[i] + 1)
    IN  IF i < Len(locator)
        THEN IF Truthy(structure, dummy) THEN stems[1] ELSE stems[2]
        ELSE IF Truthy(structure, dummy) THEN stems[3] ELSE stems[4]

RECURSIVE Join(_, _)
Join(parts, sep) ==
    IF parts = <<>> THEN <<>>
    ELSE IF Len(parts) = 1 THEN parts[1]
    ELSE parts[1] \o sep \o Join(Tail(parts), sep)

Line(stems, structure, locator) ==
    Join([i \in 1 .. Len(locator) |-> StemFor(stems, structure, locator, i)], <<>>)
        \o OdGet(structure, locator)

TreeLines(H, n, indent) ==
    LET structure == StructureDict(H, n, TRUE)
        stems     == Stems(indent)
    IN  [k \in 1 .. Len(structure) |-> Line(stems, structure, structure[k][1])]

(* Menu.tree(type_of_return=, tree_indent=) *)
tree(H, n, type_of_return, indent) ==
    LET line_deque == TreeLines(H, n, EffectiveIndent(H, n, indent))
        how        == Lower(type_of_return)
    IN  IF how \in {<<"d">>, <<"d", "e", "q", "u", "e">>}
        THEN Done(H, Container("deque", line_deque))
        ELSE IF how \in {<<"t">>, <<"t", "u", "p", "l", "e">>}
        THEN Done(H, Container("tuple", line_deque))
        ELSE IF how \in {<<"l">>, <<"l", "i", "s", "t">>}
        THEN Done(H, Container("list", line_deque))
        ELSE IF how \in {<<"s">>, <<"s", "t", "r">>}
        THEN Done(H, Container("str", Join(line_deque, <<"\n">>)))
        ELSE Raise(H, "Error")

(* ------------------------------ export ------------------------------- *)
(* export() makes one dict per entry of the structure; dict i is the one   *)
(* made for entry i.  lists[0] is the list made at level 0 and lists[i] is *)
(* the "sub_menus" list of dict i; cursor holds references to these lists. *)

Last(s) == s[Len(s)]

ExportCursor(cursor, lists, level, latest_level) ==
    IF level = 0 THEN Append(cursor, 0)
    ELSE IF level > latest_level THEN Append(cursor, Last(lists[Last(cursor)]))
    ELSE IF level = latest_level THEN cursor
    ELSE SubSeq(cursor, 1, level + 1)

RECURSIVE ExportLoop(_, _, _, _, _)
ExportLoop(structure, i, cursor, lists, latest_level) ==
    IF i > Len(structure) THEN [cursor |-> cursor, lists |-> lists]
    ELSE LET level == structure[i][1]
             c     == ExportCursor(cursor, lists, level, latest_level)
         IN  ExportLoop(structure, i + 1, c,
                        [lists EXCEPT ![Last(c)] = Append(@, i)], level)

RECURSIVE MenuDict(_, _, _, _)
MenuDict(H, structure, lists, i) ==
    [title      |-> H.title[structure[i][2]],
     attributes |-> H.attributes[structure[i][2]],
     sub_menus  |-> [j \in 1 .. Len(lists[i]) |->
                        MenuDict(H, structure, lists, lists[i][j])]]

(* Menu.export() *)
Export(H, n) ==
    LET structure == Structure(H, n, FALSE)
        done      == ExportLoop(structure, 1, <<>>,
                                [j \in 0 .. Len(structure) |-> <<>>], 0)
    IN  MenuDict(H, structure, done.lists, done.lists[done.cursor[1]][1])

export(H, n) == Done(H, Export(H, n))

(* ----------------------- instantiate_from_dict ------------------------ *)
(* menu_dict is [title, attributes, sub_menus] with a string, a dict and a *)
(* list of such records: the shape the three type_debug calls let through. *)

RECURSIVE InstantiateRec(_, _)
RECURSIVE InstantiateChildren(_, _, _)

InstantiateChildren(H, menu_instance, sub_menus_) ==
    IF sub_menus_ = <<>> THEN Done(H, menu_instance)
    ELSE LET made == InstantiateRec(H, Head(sub_menus_))
         IN  IF made.raised THEN made
             ELSE InstantiateChildren(
                      add_sub_menu(made.H, menu_instance, NoneV,
                                   [t |-> "Menu", id |-> made.ret],
                                   [t |-> "NoneType", i |-> 0], TRUE).H,
                      menu_instance, Tail(sub_menus_))

InstantiateRec(H, menu_dict) ==
    IF /\ menu_dict.attributes # EmptyDict
       /\ \/ ~ElementTypeOk(DOMAIN menu_dict.attributes, {"str"})
          \/ ~ElementTypeOk(DictValues(menu_dict.attributes), Scalar)
    THEN Raise(H, "TypeError")
    ELSE LET made == Menu__init__(H, StrV(IF Strip(menu_dict.title) = <<>>
                                          THEN Untitled ELSE menu_dict.title))
             H1   == [made.H EXCEPT !.attributes[made.ret] =
                         DictUpdate(@, menu_dict.attributes)]
         IN  InstantiateChildren(H1, made.ret, menu_dict.sub_menus)

(* Objects made during a call that nothing refers to once it returns are   *)
(* reclaimed: the heap keeps the objects it had (old) and those reachable  *)
(* from the returned one, numbered in the order they were made.            *)
Reclaim(H, old, root) ==
    LET keep == old \cup Reach(H, root)
        k    == Cardinality(keep)
        src(i) == CopySource(keep, i)
    IN  Done([title       |-> [i \in 1 .. k |-> H.title[src(i)]],
              attributes  |-> [i \in 1 .. k |-> H.attributes[src(i)]],
              sub_menus   |-> [i \in 1 .. k |->
                                 [j \in 1 .. Len(H.sub_menus[src(i)]) |->
                                    CopyRank(keep, H.sub_menus[src(i)][j])]],
              tree_indent |-> [i \in 1 .. k |-> H.tree_indent[src(i)]]],
             CopyRank(keep, root))

(* Menu.instantiate_from_dict(menu_dict) *)
instantiate_from_dict(H, menu_dict) ==
    LET made == InstantiateRec(H, menu_dict)
    IN  IF made.raised THEN Raise(H, made.ret)
        ELSE Reclaim(made.H, NodesOf(H), made.ret)

(* ------------------------------- json --------------------------------- *)

DotJson == <<".", "j", "s", "o", "n">>

DefaultPath == <<"_", "_", "m", "e", "n", "u", "_", "_">> \o DotJson

(* json.dump writes every key as a string; json.load reads it back so.     *)
(* Two keys with the same text do not occur in the attribute domains used. *)
JsonKey(k) == StrV(k.v)

JsonObject(d) ==
    [k \in {JsonKey(x) : x \in DOMAIN d} |->
        d[CHOOSE x \in DOMAIN d : JsonKey(x) = k]]

RECURSIVE JsonDump(_)
JsonDump(menu_dict) ==
    [title      |-> menu_dict.title,
     attributes |-> JsonObject(menu_dict.attributes),
     sub_menus  |-> [j \in 1 .. Len(menu_dict.sub_menus) |->
                        JsonDump(menu_dict.sub_menus[j])]]

(* the path save_as_json opens *)
SavePath(path) ==
    LET p == IF path.t = "NoneType" THEN DefaultPath ELSE path.v
    IN  IF ~EndsWith(p, DotJson) THEN p \o DotJson ELSE p

(* the path load_from_json opens *)
LoadPath(path) == IF path.t = "NoneType" THEN DefaultPath ELSE path.v

(* Menu.save_as_json(path): the new file system *)
save_as_json(F, H, n, path) ==
    DictUpdate(F, [p \in {SavePath(path)} |-> JsonDump(Export(H, n))])

(* Menu.load_from_json(path) *)
load_from_json(F, H, path) ==
    IF LoadPath(path) \notin DOMAIN F THEN Raise(H, "FileNotFoundError")
    ELSE instantiate_from_dict(H, F[LoadPath(path)])

(* ============================ the machine ============================= *)
(* call is the last call made: its name, the object it was made on (0 for  *)
(* a constructor or class method) and whether it raised; args holds the    *)
(* arguments the properties below refer to, ret what the call returned.    *)
(* copied remembers the last add_sub_menu that attached a deep copy: the   *)
(* menu_instance T given, the copy inserted and the parent.                *)

IntV == PV("int", <<"1">>)

SetV == PV("set", <<"s">>)

KeyK == StrV(<<"k">>)

TitleArgs == {NoneV, StrV(<<" ">>), StrV(<<"A">>), IntV}

AttrKeys == {KeyK, IntV}

AttrValues == {IntV, SetV}

Dicts(keys, values) == UNION {[D -> values] : D \in SUBSET keys}

NoIndex == [t |-> "NoneType", i |-> 0]

IntIndex(i) == [t |-> "int", i |-> i]

NoInstance == [t |-> "NoneType", id |-> 0]

MenuInstance(n) == [t |-> "Menu", id |-> n]

NotAMenu == [t |-> "str", id |-> 0]

NoCopy == [T |-> 0, copy |-> 0, parent |-> 0]

Nodes == NodesOf(Heap)

(* the traversals of get_structure end only when no cycle is reachable *)
Terminates(H, n) == \A x \in Reach(H, n) : x \notin Descendants(H, x)

Commit(r, op, n, a) ==
    /\ title' = r.H.title
    /\ attributes' = r.H.attributes
    /\ sub_menus' = r.H.sub_menus
    /\ tree_indent' = r.H.tree_indent
    /\ call' = [op |-> op, self |-> n, raised |-> r.raised]
    /\ args' = a
    /\ ret' = r.ret
    /\ UNCHANGED files

Init ==
    /\ title = <<Untitled>>
    /\ attributes = <<EmptyDict>>
    /\ sub_menus = << <<>> >>
    /\ tree_indent = <<DefaultIndent>>
    /\ files = EmptyDict
    /\ call = [op |-> "Menu", self |-> 0, raised |-> FALSE]
    /\ args = <<>>
    /\ ret = 1
    /\ copied = NoCopy

(* The actions take the sets their inputs are drawn from where the        *)
(* specifications below differ in them: limit bounds the objects alive,   *)
(* titles the title arguments, deeps the values of add_deepcopy and        *)
(* indents the tree_indent arguments, types the type_of_return arguments.  *)
New(limit, titles) ==
    \E t \in titles :
        LET r == Menu__init__(Heap, t)
        IN  /\ Len(r.H.title) <= limit
            /\ Commit(r, "Menu", 0, <<>>)

SetTitle ==
    \E n \in Nodes, t \in TitleArgs : Commit(set_title(Heap, n, t), "title=", n, <<>>)

DelTitle ==
    \E n \in Nodes : Commit(del_title(Heap, n), "del title", n, <<>>)

SetAttributes ==
    \E n \in Nodes :
      \E kwargs \in {[t |-> "dict", m |-> d] : d \in Dicts(AttrKeys, AttrValues)}
                      \cup {[t |-> "list", m |-> EmptyDict]} :
        Commit(set_attributes(Heap, n, kwargs), "attributes=", n, <<>>)

DelAttributesProperty ==
    \E n \in Nodes :
        Commit(del_attributes_property(Heap, n), "del attributes", n, <<>>)

AddAttributes ==
    \E n \in Nodes, kwargs \in Dicts({KeyK}, AttrValues) :
        Commit(add_attributes(Heap, n, kwargs), "add_attributes", n, <<>>)

DelAttributes ==
    \E n \in Nodes, keys \in {<<>>, <<KeyK>>, <<IntV>>, <<KeyK, IntV>>} :
        Commit(del_attributes(Heap, n, keys), "del_attributes", n, <<>>)

SetText ==
    \E n \in Nodes, content \in {StrV(<<"x">>), IntV} :
        Commit(set_text(Heap, n, content), "text=", n, <<>>)

DelText ==
    \E n \in Nodes : Commit(del_text(Heap, n), "del text", n, <<>>)

SetComment ==
    \E n \in Nodes, content \in {StrV(<<"x">>), IntV} :
        Commit(set_comment(Heap, n, content), "comment=", n, <<>>)

DelComment ==
    \E n \in Nodes : Commit(del_comment(Heap, n), "del comment", n, <<>>)

GetSubMenu ==
    \E n \in Nodes, locator \in {<<>>, <<0>>, <<-1, 0>>, <<MaxChildren>>} :
        Commit(get_sub_menu(Heap, n, locator), "get_sub_menu", n, <<locator>>)

AddSubMenu(limit, titles, deeps) ==
    \E n \in Nodes, t \in titles :
      \E menu_instance \in {NoInstance, NotAMenu} \cup {MenuInstance(m) : m \in Nodes} :
        \E index \in {NoIndex, IntIndex(0), IntIndex(-1)}, add_deepcopy \in deeps :
          LET r == add_sub_menu(Heap, n, t, menu_instance, index, add_deepcopy)
          IN  /\ Len(r.H.title) <= limit
              /\ Len(r.H.sub_menus[n]) <= MaxChildren
              /\ Commit(r, "add_sub_menu", n, <<menu_instance, add_deepcopy>>)

DelSubMenu ==
    \E n \in Nodes, index \in {-1, 0, MaxChildren}, delete_all \in BOOLEAN :
        Commit(del_sub_menu(Heap, n, index, delete_all), "del_sub_menu", n, <<>>)

GetStructure(types) ==
    \E n \in Nodes, return_title \in BOOLEAN :
      \E type_of_return \in types :
          /\ Terminates(Heap, n)
          /\ Commit(get_structure(Heap, n, return_title, type_of_return),
                    "get_structure", n, <<return_title>>)

SetTreeIndent ==
    \E n \in Nodes, value \in {-1, 0, 2} :
        Commit(set_tree_indent(Heap, n, value), "tree_indent=", n, <<>>)

Tree(indents) ==
    \E n \in Nodes :
      \E indent \in indents :
        \E type_of_return \in {<<"L", "i", "s", "t">>, <<"s", "t", "r">>, <<"x">>} :
          /\ Terminates(Heap, n)
          /\ Commit(tree(Heap, n, type_of_return, indent), "tree", n,
                    <<indent, type_of_return>>)

ExportCall ==
    \E n \in Nodes :
        /\ Terminates(Heap, n)
        /\ Commit(export(Heap, n), "export", n, <<>>)

(* dicts given to instantiate_from_dict: what export() returned, and a few *)
(* written by hand                                                         *)
HandMadeDicts ==
    {[title |-> <<" ">>, attributes |-> EmptyDict, sub_menus |-> <<>>],
     [title |-> <<"A">>, attributes |-> [k \in {IntV} |-> IntV], sub_menus |-> <<>>],
     [title |-> <<"A">>, attributes |-> [k \in {KeyK} |-> IntV],
      sub_menus |-> << [title |-> <<"A">>, attributes |-> [k \in {KeyK} |-> SetV],
                        sub_menus |-> <<>>] >>]}

Exported == {Export(Heap, n) : n \in {m \in Nodes : Terminates(Heap, m)}}

InstantiateFromDict(limit) ==
    \E menu_dict \in HandMadeDicts \cup Exported :
        LET r == instantiate_from_dict(Heap, menu_dict)
        IN  /\ Len(r.H.title) <= limit
            /\ Commit(r, "instantiate_from_dict", 0, <<menu_dict>>)

PathArgs == {NoneV, StrV(<<"m">>), StrV(<<"m">> \o DotJson)}

SaveAsJson ==
    \E n \in Nodes, path \in PathArgs :
        /\ Terminates(Heap, n)
        /\ files' = save_as_json(files, Heap, n, path)
        /\ call' = [op |-> "save_as_json", self |-> n, raised |-> FALSE]
        /\ args' = <<path>>
        /\ ret' = NoneV
        /\ UNCHANGED <<title, attributes, sub_menus, tree_indent>>

LoadFromJson(limit) ==
    \E path \in PathArgs :
        LET r == load_from_json(files, Heap, path)
        IN  /\ Len(r.H.title) <= limit
            /\ Commit(r, "load_from_json", 0, <<path>>)

(* copied after a call *)
Track ==
    copied' = IF /\ call'.op = "add_sub_menu" /\ ~call'.raised
                 /\ args'[1].t = "Menu" /\ args'[2]
              THEN [T |-> args'[1].id, copy |-> ret', parent |-> call'.self]
              ELSE copied

(* --------------------------- specifications --------------------------- *)

Deque == <<"d", "e", "q", "u", "e">>

MixedCaseDict == <<"D", "i", "c", "t">>

NoSuchType == <<"s", "e", "t">>

PlainTitles == {NoneV, StrV(<<"A">>)}

(* building trees and listing their structure *)
NextTree ==
    \/ New(MaxTreeNodes, PlainTitles) /\ UNCHANGED copied
    \/ AddSubMenu(MaxTreeNodes, {NoneV}, {TRUE}) /\ UNCHANGED copied
    \/ DelSubMenu /\ UNCHANGED copied
    \/ GetStructure({Deque, MixedCaseDict}) /\ UNCHANGED copied

SpecTree == Init /\ [][NextTree]_vars

(* building trees and drawing them *)
NextRender ==
    \/ New(MaxRenderNodes, PlainTitles) /\ UNCHANGED copied
    \/ AddSubMenu(MaxRenderNodes, {NoneV}, {TRUE}) /\ UNCHANGED copied
    \/ DelSubMenu /\ UNCHANGED copied
    \/ Tree({NoIndex, IntIndex(1), IntIndex(2), IntIndex(3)}) /\ UNCHANGED copied

SpecRender == Init /\ [][NextRender]_vars

(* the indent of a drawing *)
NextIndent ==
    \/ New(MaxIndentNodes, PlainTitles) /\ UNCHANGED copied
    \/ AddSubMenu(MaxIndentNodes, {NoneV}, {TRUE}) /\ UNCHANGED copied
    \/ SetTreeIndent /\ UNCHANGED copied
    \/ Tree({NoIndex, IntIndex(0), IntIndex(-1), IntIndex(3)}) /\ UNCHANGED copied

SpecIndent == Init /\ [][NextIndent]_vars

(* the calls that can fail *)
NextFail ==
    \/ New(MaxFailNodes, TitleArgs) /\ UNCHANGED copied
    \/ SetAttributes /\ UNCHANGED copied
    \/ AddAttributes /\ UNCHANGED copied
    \/ DelAttributes /\ UNCHANGED copied
    \/ AddSubMenu(MaxFailNodes, {NoneV, StrV(<<"A">>), IntV}, {TRUE}) /\ UNCHANGED copied
    \/ DelSubMenu /\ UNCHANGED copied
    \/ GetSubMenu /\ UNCHANGED copied
    \/ SetTreeIndent /\ UNCHANGED copied
    \/ GetStructure({Deque, NoSuchType}) /\ UNCHANGED copied
    \/ Tree({NoIndex}) /\ UNCHANGED copied

SpecFail == Init /\ [][NextFail]_vars

(* titles, attributes and the plain-data round trip *)
NextAttr ==
    \/ New(MaxAttrNodes, TitleArgs) /\ UNCHANGED copied
    \/ SetTitle /\ UNCHANGED copied
    \/ DelTitle /\ UNCHANGED copied
    \/ SetAttributes /\ UNCHANGED copied
    \/ DelAttributesProperty /\ UNCHANGED copied
    \/ AddAttributes /\ UNCHANGED copied
    \/ DelAttributes /\ UNCHANGED copied
    \/ SetText /\ UNCHANGED copied
    \/ DelText /\ UNCHANGED copied
    \/ SetComment /\ UNCHANGED copied
    \/ DelComment /\ UNCHANGED copied
    \/ ExportCall /\ UNCHANGED copied
    \/ InstantiateFromDict(MaxAttrNodes) /\ UNCHANGED copied

SpecAttr == Init /\ [][NextAttr]_vars

(* attaching copies and changing either side afterwards *)
NextCopy ==
    \/ New(MaxCopyNodes, {NoneV}) /\ Track
    \/ SetTitle /\ Track
    \/ AddAttributes /\ Track
    \/ AddSubMenu(MaxCopyNodes, {NoneV}, {TRUE}) /\ Track
    \/ DelSubMenu /\ Track

SpecCopy == Init /\ [][NextCopy]_vars

(* sharing objects between trees *)
NextAlias ==
    \/ New(MaxAliasNodes, PlainTitles) /\ UNCHANGED copied
    \/ AddSubMenu(MaxAliasNodes, {NoneV, StrV(<<"A">>)}, BOOLEAN) /\ UNCHANGED copied
    \/ DelSubMenu /\ UNCHANGED copied

SpecAlias == Init /\ [][NextAlias]_vars

(* saving to and loading from files *)
NextJson ==
    \/ AddSubMenu(MaxJsonNodes, {NoneV}, {TRUE}) /\ UNCHANGED <<files, copied>>
    \/ SaveAsJson /\ UNCHANGED copied
    \/ LoadFromJson(MaxJsonNodes) /\ UNCHANGED <<files, copied>>

SpecJson == Init /\ [][NextJson]_vars

(* ============================= properties ============================= *)

RECURSIVE ConcatAll(_)
ConcatAll(seqs) ==
    IF seqs = <<>> THEN <<>> ELSE Head(seqs) \o ConcatAll(Tail(seqs))

(* the pre-order listing of the subtree of m: m at this level, then the    *)
(* whole subtree of each child in stored order, one level down             *)
RECURSIVE PreOrder(_, _, _)
PreOrder(m, level, return_title) ==
    << <<level, IF return_title THEN title[m] ELSE m>> >>
        \o ConcatAll([i \in 1 .. Len(sub_menus[m]) |->
                         PreOrder(sub_menus[m][i], level + 1, return_title)])

(* the child-index paths of the subtree of m in pre-order: child number i  *)
(* (from 0) of the node with path p has path p + (i,)                      *)
RECURSIVE PathsPreOrder(_, _)
PathsPreOrder(m, path) ==
    <<path>> \o ConcatAll([i \in 1 .. Len(sub_menus[m]) |->
                              PathsPreOrder(sub_menus[m][i], Append(path, i - 1))])

(* the path names a node of the subtree of m by non-negative indices *)
RECURSIVE PathExists(_, _)
PathExists(m, path) ==
    \/ path = <<>>
    \/ /\ 0 <= Head(path) /\ Head(path) < Len(sub_menus[m])
       /\ PathExists(sub_menus[m][Head(path) + 1], Tail(path))

RECURSIVE NodeAt(_, _)
NodeAt(m, path) ==
    IF path = <<>> THEN m ELSE NodeAt(sub_menus[m][Head(path) + 1], Tail(path))

Levels(structure) == [i \in 1 .. Len(structure) |-> structure[i][1]]

(* C1: get_structure() in a sequence form lists the subtree of self in     *)
(* pre-order: self first at level 0, every node followed at once by the    *)
(* whole subtree of its first child, a child's subtree before the next     *)
(* sibling, siblings in stored order, each entry's level the node's depth. *)
C1_PreOrder ==
    (call.op = "get_structure" /\ ~call.raised
        /\ ret.kind \in {"deque", "tuple", "list"})
    => ret.items = PreOrder(call.self, 0, args[1])

(* a root with children A (with one child A1) then B was listed *)
C1_Witness ==
    /\ call.op = "get_structure" /\ ~call.raised /\ ret.kind = "deque"
    /\ args = <<FALSE>>
    /\ Levels(ret.items) = <<0, 1, 2, 1>>
    /\ ret.items[2][2] = sub_menus[call.self][1]
    /\ ret.items[4][2] = sub_menus[call.self][2]

(* C10: the mapping form with return_title=False has exactly the child-    *)
(* index paths of the subtree as keys, in pre-order, no key twice, and     *)
(* maps each path to the node get_sub_menu returns for it.                 *)
C10_DictForm ==
    (call.op = "get_structure" /\ ~call.raised /\ ret.kind = "dict"
        /\ args = <<FALSE>>)
    => /\ OdKeys(ret.items) = PathsPreOrder(call.self, <<>>)
       /\ \A i, j \in DOMAIN ret.items :
              ret.items[i][1] = ret.items[j][1] => i = j
       /\ \A i \in DOMAIN ret.items :
              LET found == get_sub_menu(Heap, call.self, ret.items[i][1])
              IN  ~found.raised /\ found.ret = ret.items[i][2]

(* the mapping of a tree whose level drops by more than one between two    *)
(* consecutive entries                                                     *)
C10_Witness ==
    /\ call.op = "get_structure" /\ ~call.raised /\ ret.kind = "dict"
    /\ args = <<FALSE>>
    /\ \E i \in DOMAIN ret.items :
          /\ i + 1 \in DOMAIN ret.items
          /\ Len(ret.items[i][1]) >= Len(ret.items[i + 1][1]) + 2

(* the prefix drawn before the title of the node at path, for indent n *)
ExpectedGlyph(m, path, j, n) ==
    LET later == PathExists(m, Append(SubSeq(path, 1, j - 1), path[j] + 1))
    IN  IF j < Len(path)
        THEN IF later THEN Stems(n)[1] ELSE Stems(n)[2]
        ELSE IF later THEN Stems(n)[3] ELSE Stems(n)[4]

ExpectedLine(m, path, n) ==
    ConcatAll([j \in 1 .. Len(path) |-> ExpectedGlyph(m, path, j, n)])
        \o title[NodeAt(m, path)]

ExpectedTree(m, n) ==
    LET paths == PathsPreOrder(m, <<>>)
    IN  [k \in 1 .. Len(paths) |-> ExpectedLine(m, paths[k], n)]

Drawn(lines) == IF ret.kind = "str" THEN Join(lines, <<"\n">>) ELSE lines

(* C2: with effective indent n >= 1, tree() draws the root with no prefix  *)
(* and the node at path (i_0, ..., i_{k-1}) with one glyph per level: at a *)
(* level before the last the vertical glyph when the ancestor there has a  *)
(* later sibling and the blank one otherwise, at the last level the        *)
(* mid-branch glyph when the node has a next sibling and the last-branch   *)
(* glyph otherwise; the title follows the prefix.                          *)
C2_Connectors ==
    (call.op = "tree" /\ ~call.raised
        /\ (args[1].t = "NoneType" \/ args[1].i >= 1))
    => ret.items =
          Drawn(ExpectedTree(call.self,
                             IF args[1].t = "NoneType" THEN tree_indent[call.self]
                             ELSE args[1].i))

(* R with children A (a leaf) and B (with one child C), drawn with indent  *)
(* 2: mid-branch for A, last-branch for B, blank then last-branch for C    *)
C2_Witness ==
    /\ call.op = "tree" /\ ~call.raised /\ ret.kind = "list"
    /\ args[1] = IntIndex(2)
    /\ Len(sub_menus[call.self]) = 2
    /\ sub_menus[sub_menus[call.self][1]] = <<>>
    /\ Len(sub_menus[sub_menus[call.self][2]]) = 1
    /\ Len(ret.items) = 4
    /\ SubSeq(ret.items[2], 1, 2) = <<BoxTee, BoxDash>>
    /\ SubSeq(ret.items[3], 1, 2) = <<BoxCorner, BoxDash>>
    /\ SubSeq(ret.items[4], 1, 4) = <<" ", " ", BoxCorner, BoxDash>>

NonPositiveOverride == args[1].t = "int" /\ args[1].i <= 0

(* C7 as stated: tree() with an explicit override that is not positive     *)
(* fails and returns no diagram.                                           *)
C7_NonPositiveOverrideFails ==
    (call.op = "tree" /\ NonPositiveOverride) => call.raised

(* C7 as amended: tree() with an override that is not positive does not    *)
(* fail for it: it draws with the node's own tree_indent, as it does when  *)
(* no override is given.                                                   *)
C7_NonPositiveOverrideUsesOwnIndent ==
    (call.op = "tree" /\ NonPositiveOverride
        /\ Lower(args[2]) \in {<<"l", "i", "s", "t">>, <<"s", "t", "r">>})
    => /\ ~call.raised
       /\ ret.items = Drawn(ExpectedTree(call.self, tree_indent[call.self]))

(* a node with sub menus and its own indent set, drawn with override 0 or -1 *)
C7_Witness ==
    /\ call.op = "tree" /\ NonPositiveOverride /\ ~call.raised
    /\ ret.kind = "list"
    /\ tree_indent[call.self] # DefaultIndent
    /\ sub_menus[call.self] # <<>>

(* C5: a call that raises leaves every object as it was: titles,           *)
(* attributes, sub menus and tree indents are those before the call.       *)
C5_FailedCallChangesNothing ==
    [][call'.raised =>
          /\ title' = title
          /\ attributes' = attributes
          /\ sub_menus' = sub_menus
          /\ tree_indent' = tree_indent]_vars

(* the attributes setter raised on a node that has attributes and sub menus *)
C5_Witness ==
    /\ call.op = "attributes=" /\ call.raised
    /\ attributes[call.self] # EmptyDict
    /\ sub_menus[call.self] # <<>>

(* C6: every attribute key is a string and every attribute value is of a   *)
(* Scalar kind.                                                            *)
C6_StringKeysScalarValues ==
    \A n \in Nodes : \A k \in DOMAIN attributes[n] :
        k.t = "str" /\ attributes[n][k].t \in Scalar

(* the objects there were before the last call, which made ret and below *)
Before == IF call.raised THEN Nodes ELSE {n \in Nodes : n < ret}

(* C3: instantiate_from_dict(m.export()) succeeds and returns a tree whose *)
(* export() equals m.export().                                             *)
C3_RoundTrip ==
    (call.op = "instantiate_from_dict"
        /\ \E m \in Before : Export(Heap, m) = args[1])
    => (~call.raised /\ Export(Heap, ret) = args[1])

(* C8: no node is its own ancestor. *)
C8_NoNodeIsItsOwnAncestor == Acyclic(Heap)

(* C9: m.save_as_json(p) followed by Menu.load_from_json(p) reads the file *)
(* just written and returns a tree whose export() equals m.export().       *)
C9_SaveThenLoad ==
    [][(call.op = "save_as_json" /\ call'.op = "load_from_json" /\ args' = args)
          => (~call'.raised /\ Export(Heap', ret') = Export(Heap, call.self))]_vars

MutatorOps == {"title=", "add_attributes", "add_sub_menu", "del_sub_menu"}

Mutation == call'.op \in MutatorOps /\ ~call'.raised

DeepCopyAdded ==
    /\ call'.op = "add_sub_menu" /\ ~call'.raised
    /\ args'[1].t = "Menu" /\ args'[2]

Disjoint(a, b) == Reach(Heap, a) \cap Reach(Heap, b) = {}

====
